---- MODULE Spec2Model ----
(***************************************************************************)
(* Stock analysis agent: the five-stage pipeline of src/graph.py over the  *)
(* node functions of src/components/nodes.py and the indicator functions   *)
(* of src/components/indicators.py.                                        *)
(*                                                                         *)
(* Representation.                                                         *)
(*  - A key of the state dict that is missing or None is <<>>; a key that  *)
(*    holds v is <<v>> (Some(v)).                                          *)
(*  - A float is an exact rational <<n, d>> in lowest terms with d > 0;    *)
(*    NaN / None is <<>>.  Closes are whole numbers, so every sum is exact *)
(*    and two different means never round to the same double.              *)
(*  - A ticker is a sequence of one-character strings.                     *)
(*  - An error message is [text |-> template, arg |-> ticker]; the text of *)
(*    a caught exception ({e}) is not modelled.                            *)
(***************************************************************************)
EXTENDS Integers, Sequences, FiniteSets, TLC

\* ------------------------------------------------------------- bounds
\* Closes and live prices are whole numbers in 1..MaxPrice.
MaxPrice == 3
\* A generated history is a flat run followed by TailLen free closes.
TailLen == 3
\* sma on its own: series of up to MaxLen closes, windows up to MaxWindow.
MaxLen == 4
MaxWindow == 3
\* rsi on its own: series of up to MaxRsiLen closes, periods up to
\* MaxPeriod.
MaxRsiLen == 5
MaxPeriod == 2
\* _format_market_cap on its own: caps of up to MaxMantissa units (and a
\* half) of a thousand, a million and a billion.
MaxMantissa == 12

\* ---------------------------------------------- src/components/config.py
SMA_SHORT == 10
SMA_LONG == 20
RSI_PERIOD == 14
HISTORY_DAYS == 60
CURRENCY_FALLBACK == "USD"

\* ------------------------------------------------------------ options
None == <<>>
Some(v) == <<v>>
IsNone(o) == o = <<>>
Val(o) == o[1]

\* ---------------------------------------------------------- rationals
Abs(x) == IF x < 0 THEN -x ELSE x

RECURSIVE GCD(_, _)
GCD(a, b) == IF b = 0 THEN a ELSE GCD(b, a % b)

\* n / d in lowest terms, d made positive (d # 0).
Rat(n, d) ==
    IF d = 1 THEN <<n, 1>>
    ELSE LET g == GCD(Abs(n), Abs(d))
             s == IF d < 0 THEN -1 ELSE 1
         IN  <<(s * n) \div g, (s * d) \div g>>

Int2Rat(i) == <<i, 1>>
NaN == <<>>
IsNaN(x) == x = <<>>
\* float('nan') in a field the code does not pass through
\* _to_float_or_none: it is not None, it is truthy, and every comparison
\* with it is False.
FloatNaN == <<0, 0>>
Unordered(x) == IsNaN(x) \/ x = FloatNaN

\* Arithmetic and comparison with NaN: an operation on NaN is NaN, a
\* comparison with NaN is False, a division by zero is NaN (0/0) here
\* because the only divisor that can be zero is replaced by NaN first.
RatAdd(x, y) == IF IsNaN(x) \/ IsNaN(y) THEN NaN
                ELSE Rat(x[1] * y[2] + y[1] * x[2], x[2] * y[2])
RatSub(x, y) == IF IsNaN(x) \/ IsNaN(y) THEN NaN
                ELSE Rat(x[1] * y[2] - y[1] * x[2], x[2] * y[2])
RatDiv(x, y) == IF IsNaN(x) \/ IsNaN(y) \/ (~IsNaN(y) /\ y[1] = 0) THEN NaN
                ELSE Rat(x[1] * y[2], x[2] * y[1])
RatNeg(x) == IF IsNaN(x) THEN NaN ELSE <<-x[1], x[2]>>
RatLt(x, y) == ~Unordered(x) /\ ~Unordered(y) /\ x[1] * y[2] < y[1] * x[2]
RatGt(x, y) == RatLt(y, x)
RatLe(x, y) == ~Unordered(x) /\ ~Unordered(y) /\ x[1] * y[2] <= y[1] * x[2]
RatGe(x, y) == RatLe(y, x)
RatMax(x, y) == IF RatLt(x, y) THEN y ELSE x
RatMin(x, y) == IF RatLt(y, x) THEN y ELSE x

\* ------------------------------------------- pandas Series operations
\* Series.rolling(window, min_periods).mean(): one pass over the series
\* keeping the running sum and the number of non-NaN observations of the
\* window; the value entering is added, the value leaving is removed.
RECURSIVE RollFrom(_, _, _, _, _, _, _)
RollFrom(series, window, min_periods, i, sum, nobs, out) ==
    IF i > Len(series) THEN out
    ELSE LET add   == series[i]
             sum1  == IF IsNaN(add) THEN sum ELSE RatAdd(sum, add)
             nobs1 == IF IsNaN(add) THEN nobs ELSE nobs + 1
             drop  == i > window /\ ~IsNaN(series[i - window])
             sum2  == IF drop THEN RatSub(sum1, series[i - window]) ELSE sum1
             nobs2 == IF drop THEN nobs1 - 1 ELSE nobs1
             mean  == IF nobs2 >= min_periods /\ nobs2 > 0
                      THEN RatDiv(sum2, Int2Rat(nobs2)) ELSE NaN
         IN  RollFrom(series, window, min_periods, i + 1, sum2, nobs2,
                      Append(out, mean))

RollingMean(series, window, min_periods) ==
    RollFrom(series, window, min_periods, 1, Int2Rat(0), 0, <<>>)

\* A Series built element by element, as a sequence (f \o <<>> makes TLC
\* hold the values of f rather than its rule).
Series(f) == f \o <<>>

\* Series.diff(): NaN at the first position.
Diff(series) ==
    Series([i \in 1..Len(series) |->
        IF i = 1 THEN NaN ELSE RatSub(series[i], series[i - 1])])

\* Series.clip(lower=0) and Series.clip(upper=0): NaN stays NaN.
ClipLower0(series) ==
    Series([i \in 1..Len(series) |->
        IF IsNaN(series[i]) THEN NaN ELSE RatMax(series[i], Int2Rat(0))])
ClipUpper0(series) ==
    Series([i \in 1..Len(series) |->
        IF IsNaN(series[i]) THEN NaN ELSE RatMin(series[i], Int2Rat(0))])
NegSeries(series) == Series([i \in 1..Len(series) |-> RatNeg(series[i])])

\* Series.replace(0, nan)
Replace0NaN(series) ==
    Series([i \in 1..Len(series) |->
        IF ~IsNaN(series[i]) /\ series[i][1] = 0 THEN NaN ELSE series[i]])

\* Series.bfill(): a NaN takes the next defined value; trailing NaNs stay.
RECURSIVE BfillFrom(_, _, _, _)
BfillFrom(series, i, next, out) ==
    IF i = 0 THEN out
    ELSE LET v == IF IsNaN(series[i]) THEN next ELSE series[i]
         IN  BfillFrom(series, i - 1, v, <<v>> \o out)
NoFill(series) == series
Bfill(series) == BfillFrom(series, Len(series), NaN, <<>>)

\* --------------------------------------- src/components/indicators.py
smaDropsOne(series, window) == RollingMean(series, window + 1, window)
sma(series, window) == RollingMean(series, window, window)

rsiLossesSigned(close, period) ==
    LET delta    == Diff(close)
        gains    == ClipLower0(delta)
        losses   == ClipUpper0(delta)
        avg_gain == RollingMean(gains, period, period)
        avg_loss == Replace0NaN(RollingMean(losses, period, period))
        rsi_vals == Series([i \in 1..Len(close) |->
                        LET rs == RatDiv(avg_gain[i], avg_loss[i])
                        IN  RatSub(Int2Rat(100),
                                   RatDiv(Int2Rat(100), RatAdd(Int2Rat(1), rs)))])
    IN  Bfill(rsi_vals)
rsiSwapped(close, period) ==
    LET delta    == Diff(close)
        gains    == ClipLower0(delta)
        losses   == NegSeries(ClipUpper0(delta))
        avg_gain == Replace0NaN(RollingMean(gains, period, period))
        avg_loss == RollingMean(losses, period, period)
        rsi_vals == Series([i \in 1..Len(close) |->
                        LET rs == RatDiv(avg_loss[i], avg_gain[i])
                        IN  RatSub(Int2Rat(100),
                                   RatDiv(Int2Rat(100), RatAdd(Int2Rat(1), rs)))])
    IN  Bfill(rsi_vals)
rsi(close, period) ==
    LET delta    == Diff(close)
        gains    == ClipLower0(delta)
        losses   == NegSeries(ClipUpper0(delta))
        avg_gain == RollingMean(gains, period, period)
        avg_loss == Replace0NaN(RollingMean(losses, period, period))
        rsi_vals == Series([i \in 1..Len(close) |->
                        LET rs == RatDiv(avg_gain[i], avg_loss[i])
                        IN  RatSub(Int2Rat(100),
                                   RatDiv(Int2Rat(100), RatAdd(Int2Rat(1), rs)))])
    IN  Bfill(rsi_vals)

\* ------------------------------------------------------------ strings
\* str.strip() and str.upper() on a ticker (a sequence of characters).
NoStrip(s) == s
RECURSIVE LStrip(_)
LStrip(s) == IF s # <<>> /\ Head(s) = " " THEN LStrip(Tail(s)) ELSE s
RECURSIVE RStrip(_)
RStrip(s) == IF s # <<>> /\ s[Len(s)] = " "
             THEN RStrip(SubSeq(s, 1, Len(s) - 1)) ELSE s
Strip(s) == RStrip(LStrip(s))
UpperChar(c) == IF c = "a" THEN "A" ELSE c
Upper(s) == [i \in 1..Len(s) |-> UpperChar(s[i])]

\* sep.join(items): the items with the separator between neighbours.
RECURSIVE Join(_, _)
Join(sep, items) ==
    IF items = <<>> THEN <<>>
    ELSE IF Len(items) = 1 THEN <<items[1]>>
    ELSE <<items[1], sep>> \o Join(sep, Tail(items))

\* An error message: a fixed text (written here without its diacritics)
\* and the ticker formatted into it.
Msg(text, arg) == [text |-> text, arg |-> arg]
Sep(text) == [text |-> text, arg |-> <<>>]

E_EMPTY == Msg("Ticker is empty.", <<>>)
E_NOT_FOUND(t) == Msg("Khong tim thay ma co phieu: {ticker}", t)
E_VERIFY(t) == Msg("Loi khi xac minh ma {ticker}: {e}", t)
E_NO_HISTORY == Msg("Khong lay duoc du lieu lich su.", <<>>)
E_FETCH(t) == Msg("Loi khi lay du lieu cho {ticker}: {e}", t)
E_MISSING_HISTORY == Msg("Thieu du lieu lich su de tinh chi bao.", <<>>)

\* ------------------------------------------------------ pipeline state
\* state: the StockAgentState dict threaded through the nodes.
\* pc:    the node the graph runs next ("END" after the last one,
\*        "RAISED" if a node let an exception out of graph.invoke).
\* calls: the requests sent to yfinance so far, in order.
\* arg, res: the argument and the result of an indicator or decision
\*        function applied on its own (unused by the pipeline).
VARIABLES state, pc, calls, arg, res

vars == <<state, pc, calls, arg, res>>

\* graph.invoke({'ticker': ticker}): every other key is missing.
InitialState(ticker) ==
    [ticker               |-> ticker,
     stock_info           |-> None,
     historical_data      |-> None,
     technical_indicators |-> None,
     trend                |-> None,
     report               |-> None,
     is_valid             |-> None,
     errors               |-> None]

\* The errors list of a state: errors is Some(list) once a node has run.
EnsureErrorsResets(st) == [st EXCEPT !.errors = Some(<<>>)]
_ensure_errors(st) ==
    IF IsNone(st.errors) THEN [st EXCEPT !.errors = Some(<<>>)] ELSE st

AppendError(st, m) == [st EXCEPT !.errors = Some(Append(Val(st.errors), m))]

\* A node's outcome: the state it returns, or an exception leaving it.
Returned(st) == [raised |-> FALSE, st |-> st]
Raised(st) == [raised |-> TRUE, st |-> st]

\* ------------------------------------------------- yfinance (gateway)
\* What the gateway can answer.  last_price is None or a float (nan
\* included),
\* market_cap an int or None (in thousands of currency units, so that a
\* trillion fits a 32-bit integer), the names and currency a string or
\* None.
LivePrices == {NaN, FloatNaN} \cup {Int2Rat(p) : p \in 0..MaxPrice}

\* t.fast_info: raises, or a mapping.
FastInfoFault == [fault |-> TRUE, last_price |-> NaN,
                  market_cap |-> None, currency |-> None]
FastInfos ==
    {FastInfoFault}
    \cup {[fault |-> FALSE, last_price |-> p, market_cap |-> None,
           currency |-> None] : p \in LivePrices}
    \cup {[fault |-> FALSE, last_price |-> NaN, market_cap |-> Some(2500000),
           currency |-> Some("EUR")]}

\* t.info: raises, or a mapping.
InfoFault == [fault |-> TRUE, marketCap |-> None, currency |-> None,
              longName |-> None, shortName |-> None]
Infos ==
    {InfoFault,
     [fault |-> FALSE, marketCap |-> Some(999), currency |-> Some("GBP"),
      longName |-> Some("Long Name Inc."), shortName |-> Some("Short")],
     [fault |-> FALSE, marketCap |-> None, currency |-> None,
      longName |-> None, shortName |-> Some("Short")]}

\* t.history(period='1d') in validate_ticker: rows, no rows, or a fault;
\* fast_info is read only when there are no rows.
ValidateOutcomes ==
    {[session |-> s, fast |-> FastInfoFault] : s \in {"data", "fault"}}
    \cup {[session |-> "empty", fast |-> f] : f \in FastInfos}

\* ------------------------------ src/components/nodes.py validate_ticker
\* except Exception as e: (lines 67-69)
validate_propagates(s, ticker) == Raised(s)
validate_except(s, ticker) ==
    Returned(AppendError([s EXCEPT !.is_valid = Some(FALSE)], E_VERIFY(ticker)))

validate_ticker(st, gw) ==
    LET ticker == Upper(Strip(st.ticker))
        s      == _ensure_errors(st)
    IN  IF ticker = <<>>
        THEN Returned(AppendError([s EXCEPT !.is_valid = Some(FALSE)], E_EMPTY))
        ELSE IF gw.session = "fault"
        THEN validate_except(s, ticker)
        ELSE LET price == gw.fast.last_price
                 valid ==
                    \/ gw.session = "data"
                    \/ /\ ~gw.fast.fault
                       /\ ~IsNaN(price)
                       /\ RatGt(price, Int2Rat(0))
                 s1 == [s EXCEPT !.is_valid = Some(valid)]
             IN  Returned(IF valid THEN s1
                          ELSE AppendError(s1, E_NOT_FOUND(ticker)))

\* A request to the gateway and how it ended: "ok", "empty" or "fault".
Call(node, endpoint, symbol, result) ==
    [node |-> node, endpoint |-> endpoint, symbol |-> symbol, result |-> result]
Result(fault) == IF fault THEN "fault" ELSE "ok"

\* The requests validate_ticker sends (lines 54-60).
validate_calls(st, gw) ==
    LET ticker == Upper(Strip(st.ticker))
        node   == "validate_ticker"
    IN  IF ticker = <<>> THEN <<>>
        ELSE IF gw.session = "empty"
        THEN <<Call(node, "history", ticker, "empty"),
               Call(node, "fast_info", ticker, Result(gw.fast.fault))>>
        ELSE <<Call(node, "history", ticker, Result(gw.session = "fault"))>>

\* ----------------------------- src/components/nodes.py fetch_stock_data
\* The closes yf.download(...).dropna() can hold: whole numbers, no NaN,
\* at most HISTORY_DAYS rows.  Three families: every series of one or
\* two closes; a flat run at FlatLevel followed by TailLen closes, each
\* at, one under or one over that level; and a ramp of SMA_LONG closes.
Prices == 1..MaxPrice
HistLens == {n \in {RSI_PERIOD + 1, SMA_LONG, SMA_LONG + 1} : n <= HISTORY_DAYS}
FlatLevel == (MaxPrice + 1) \div 2
TailPrices == {FlatLevel - 1, FlatLevel, FlatLevel + 1}
StepHistory(n, p, tail) ==
    [i \in 1..n |->
        Int2Rat(IF i <= n - Len(tail) THEN p ELSE tail[i - (n - Len(tail))])]
StepHistories ==
    {StepHistory(n, FlatLevel, tail) :
        n \in HistLens, tail \in [1..TailLen -> TailPrices]}
ShortHistories ==
    UNION {[1..n -> {Int2Rat(p) : p \in Prices}] : n \in 1..2}
\* A ramp rises by s a day, except for one fall of 1 after day j (no fall
\* when j is 0 or n).
RampHistory(n, s, j) ==
    [i \in 1..n |-> Int2Rat(s * i + (IF i > j THEN 0 ELSE s + 1))]
RampHistories == {RampHistory(SMA_LONG, s, j) : s \in Prices, j \in 0..SMA_LONG}
Histories ==
    StepHistories \cup ShortHistories \cup RampHistories

\* datetime.now() at the moment the snapshot is built.
MaxClock == 1
Clock == 1..MaxClock

\* yf.download: rows, no rows, or a fault; fast_info and info are read
\* only when there are rows.
FetchOutcomesOver(histories) ==
    {[download |-> d, hist |-> <<>>, fast |-> FastInfoFault, info |-> InfoFault,
      now |-> 1] : d \in {"empty", "fault"}}
    \cup {[download |-> "data", hist |-> h, fast |-> f, info |-> i, now |-> t] :
            h \in histories, f \in FastInfos, i \in Infos, t \in Clock}
FetchOutcomes == FetchOutcomesOver(Histories)
\* The same answers over the histories of one or two closes only.
FetchOutcomesShort == FetchOutcomesOver(ShortHistories)

\* A DataFrame: the Close column and the indicator columns once attached.
Frame(close) == [Close |-> close, SMA_SHORT |-> None, SMA_LONG |-> None,
                 RSI |-> None]

\* _is_missing(x): None or NaN
_is_missing(x) == x = <<>>
\* a or b
Or(a, b) == IF a = <<>> THEN b ELSE a
\* A display name is a sequence of pieces of text, like a ticker.
Text(o) == IF IsNone(o) THEN <<>> ELSE <<Val(o)>>

\* except Exception as e: (lines 143-145)
fetch_propagates(s, ticker) == Raised(s)
fetch_except(s, ticker) == Returned(AppendError(s, E_FETCH(ticker)))

\* if hist.empty: (lines 88-90)
fetch_empty_silent(s) == Returned(s)
fetch_empty(s) == Returned(AppendError(s, E_NO_HISTORY))

fetch_stock_data(st, gw) ==
    LET ticker == Upper(st.ticker)
        s      == _ensure_errors(st)
    IN  IF gw.download = "fault" THEN fetch_except(s, ticker)
        ELSE IF gw.download = "empty" THEN fetch_empty(s)
        ELSE
        LET hist == gw.hist
            \* fast_info first; a fault there leaves the three unset
            price0    == IF gw.fast.fault THEN NaN ELSE gw.fast.last_price
            cap0      == IF gw.fast.fault THEN None ELSE gw.fast.market_cap
            currency0 == IF gw.fast.fault THEN None ELSE gw.fast.currency
            \* else the last close
            current_price == IF IsNaN(price0) THEN hist[Len(hist)] ELSE price0
            \* company info; a fault there leaves what fast_info gave
            market_cap == IF ~gw.info.fault /\ _is_missing(cap0)
                          THEN gw.info.marketCap ELSE cap0
            currency1  == IF ~gw.info.fault /\ _is_missing(currency0)
                          THEN gw.info.currency ELSE currency0
            long_name  == IF gw.info.fault THEN <<>>
                          ELSE Or(Text(gw.info.longName), Text(gw.info.shortName))
            currency   == Or(Text(currency1), <<CURRENCY_FALLBACK>>)
            info == [symbol        |-> ticker,
                     long_name     |-> Or(long_name, ticker),
                     current_price |-> current_price,
                     market_cap    |-> market_cap,
                     currency      |-> currency,
                     analysis_time |-> gw.now]
        IN  Returned([s EXCEPT !.stock_info = Some(info),
                               !.historical_data = Some(Frame(hist))])

\* The requests fetch_stock_data sends (lines 80-86, 99, 114).
fetch_calls(st, gw) ==
    LET ticker == Upper(st.ticker)
        node   == "fetch_stock_data"
    IN  IF gw.download = "data"
        THEN <<Call(node, "download", ticker, "ok"),
               Call(node, "fast_info", ticker, Result(gw.fast.fault)),
               Call(node, "info", ticker, Result(gw.info.fault))>>
        ELSE <<Call(node, "download", ticker, gw.download)>>

\* --------------- src/components/nodes.py calculate_technical_indicators
\* state.get('technical_indicators') or {}: every lookup in {} is None.
NoTech == [sma_short |-> NaN, sma_long |-> NaN, rsi |-> NaN,
           last_close |-> NaN, prev_close |-> NaN]
TechOf(st) == IF IsNone(st.technical_indicators) THEN NoTech
              ELSE Val(st.technical_indicators)

\* if hist is None or hist.empty: (lines 151-153)
indicators_missing_silent(s) == s
indicators_missing(s) == AppendError(s, E_MISSING_HISTORY)

calculate_technical_indicators(st) ==
    LET s == _ensure_errors(st)
    IN  IF IsNone(s.historical_data) \/ Val(s.historical_data).Close = <<>>
        THEN Returned(indicators_missing(s))
        ELSE
        LET hist       == Val(s.historical_data)
            close      == hist.Close
            sma_short  == sma(close, SMA_SHORT)
            sma_long   == sma(close, SMA_LONG)
            rsi_series == rsi(close, RSI_PERIOD)
            df   == [hist EXCEPT !.SMA_SHORT = Some(sma_short),
                                 !.SMA_LONG = Some(sma_long),
                                 !.RSI = Some(rsi_series)]
            n    == Len(close)
            \* _to_float_or_none of the last row: NaN becomes None
            tech == [sma_short  |-> sma_short[n],
                     sma_long   |-> sma_long[n],
                     rsi        |-> rsi_series[n],
                     last_close |-> close[n],
                     prev_close |-> IF n >= 2 THEN close[n - 1] ELSE NaN]
        IN  Returned([s EXCEPT !.historical_data = Some(df),
                               !.technical_indicators = Some(tech)])

\* ------------------------- src/components/nodes.py analyze_market_trend
ShortTermSwapped(price, sma_short_v, sma_long_v) ==
    IF IsNaN(price) \/ IsNaN(sma_short_v) \/ IsNaN(sma_long_v) THEN "NEUTRAL"
    ELSE IF RatGt(sma_short_v, sma_long_v) /\ RatGt(price, sma_short_v)
    THEN "BEARISH ↘"
    ELSE IF RatLt(sma_short_v, sma_long_v) /\ RatLt(price, sma_short_v)
    THEN "BULLISH ↗"
    ELSE "NEUTRAL →"
ShortTermIgnoresPrice(price, sma_short_v, sma_long_v) ==
    IF IsNaN(price) \/ IsNaN(sma_short_v) \/ IsNaN(sma_long_v) THEN "NEUTRAL"
    ELSE IF RatGt(sma_short_v, sma_long_v) THEN "BULLISH ↗"
    ELSE IF RatLt(sma_short_v, sma_long_v) THEN "BEARISH ↘"
    ELSE "NEUTRAL →"
ShortTermOf(price, sma_short_v, sma_long_v) ==
    IF IsNaN(price) \/ IsNaN(sma_short_v) \/ IsNaN(sma_long_v) THEN "NEUTRAL"
    ELSE IF RatGt(sma_short_v, sma_long_v) /\ RatGt(price, sma_short_v)
    THEN "BULLISH ↗"
    ELSE IF RatLt(sma_short_v, sma_long_v) /\ RatLt(price, sma_short_v)
    THEN "BEARISH ↘"
    ELSE "NEUTRAL →"

PriceVsOf(price, sma_short_v, sma_long_v) ==
    IF IsNaN(price) \/ IsNaN(sma_short_v) \/ IsNaN(sma_long_v)
    THEN "Khong xac dinh"
    ELSE IF RatGt(price, sma_short_v) /\ RatGt(price, sma_long_v)
    THEN "Above both moving averages"
    ELSE IF RatLt(price, sma_short_v) /\ RatLt(price, sma_long_v)
    THEN "Below both moving averages"
    ELSE "center both moving averages"

MomentumStrict(price, prev_close) ==
    IF ~IsNaN(prev_close) /\ ~IsNaN(price)
    THEN (IF RatGt(price, prev_close) THEN "POSITIVE" ELSE "NEGATIVE")
    ELSE "NEUTRAL"
MomentumOf(price, prev_close) ==
    IF ~IsNaN(prev_close) /\ ~IsNaN(price)
    THEN (IF RatGe(price, prev_close) THEN "POSITIVE" ELSE "NEGATIVE")
    ELSE "NEUTRAL"

NotesOf(rsi_v) ==
    IF IsNaN(rsi_v) THEN <<>>
    ELSE IF RatGt(rsi_v, Int2Rat(70))
    THEN <<"RSI indicates overbought conditions">>
    ELSE IF RatLt(rsi_v, Int2Rat(30))
    THEN <<"RSI indicates oversale conditions">>
    ELSE <<>>

analyze_market_trend(st) ==
    LET s    == _ensure_errors(st)
        tech == TechOf(s)
        price == tech.last_close
    IN  Returned([s EXCEPT !.trend = Some(
            [short_term   |-> ShortTermOf(price, tech.sma_short, tech.sma_long),
             price_vs_sma |-> PriceVsOf(price, tech.sma_short, tech.sma_long),
             momentum     |-> MomentumOf(price, tech.prev_close),
             notes        |-> Join("; ", NotesOf(tech.rsi))])])

\* ---------------------- src/components/nodes.py generate_recommendation
\* format(x, '.2f'): x in hundredths, rounded half to even.  (A float
\* that is not exact in binary has no true tie; the values formatted here
\* are not ties in the third decimal.)
RoundHalfEven(n, d) ==
    LET q == n \div d
        r == n % d
    IN  IF 2 * r < d THEN q
        ELSE IF 2 * r > d THEN q + 1
        ELSE IF q % 2 = 0 THEN q ELSE q + 1
Hundredths(x) == RoundHalfEven(100 * x[1], x[2])

\* _format_currency(value, currency): 'N/A', or the currency and the
\* value to two decimals.
NA == [na |-> TRUE, currency |-> <<>>, digits |-> 0, suffix |-> ""]
_format_currency(value, currency) ==
    IF IsNaN(value) THEN NA
    ELSE IF value = FloatNaN
    THEN [na |-> FALSE, currency |-> currency, digits |-> 0, suffix |-> "nan"]
    ELSE [na |-> FALSE, currency |-> currency, digits |-> Hundredths(value),
          suffix |-> ".2f"]

\* _format_market_cap(market_cap, currency); market_cap and the thresholds
\* are in thousands of currency units.  The quotient in hundredths,
\* 100 * mc / thresh, is computed as mc / (thresh / 100) to stay within
\* 32-bit integers.
_format_market_cap(market_cap, currency) ==
    IF IsNone(market_cap) THEN NA
    ELSE LET mc == Val(market_cap)
         IN  IF mc >= 1000000000
             THEN [na |-> FALSE, currency |-> currency,
                   digits |-> RoundHalfEven(mc, 10000000), suffix |-> "T"]
             ELSE IF mc >= 1000000
             THEN [na |-> FALSE, currency |-> currency,
                   digits |-> RoundHalfEven(mc, 10000), suffix |-> "B"]
             ELSE IF mc >= 1000
             THEN [na |-> FALSE, currency |-> currency,
                   digits |-> RoundHalfEven(mc, 10), suffix |-> "M"]
             ELSE [na |-> FALSE, currency |-> currency, digits |-> mc,
                   suffix |-> IF mc = 0 THEN "" ELSE ",000"]

\* state.get('stock_info') or {} and state.get('trend') or {}
InfoOf(st) ==
    IF IsNone(st.stock_info)
    THEN [symbol |-> <<>>, long_name |-> <<>>, current_price |-> NaN,
          market_cap |-> None, currency |-> <<"USD">>, analysis_time |-> 0]
    ELSE Val(st.stock_info)
TrendOf(st) ==
    IF IsNone(st.trend)
    THEN [short_term |-> "N/A", price_vs_sma |-> "N/A", momentum |-> "N/A",
          notes |-> <<>>]
    ELSE Val(st.trend)

\* a or b on floats: None and 0.0 are falsy, nan is not
OrFloat(a, b) == IF IsNaN(a) \/ a = Int2Rat(0) THEN b ELSE a

R_BUY == "price > SMA10 > SMA20 và RSI within 30-70 "
R_SELL == "price < SMA20 < SMA10 và RSI > 70 "
R_HOLD == "not qualifify to buy/sale"
R_LACK == "Lack of sufficient indicator data to make a decision"

\* The decision and its reason (lines 275-289).
BuyCondUnchained(current_price, sma10, sma20, rsi_v) ==
    /\ RatGt(current_price, sma10) /\ RatGt(current_price, sma20)
    /\ RatLe(Int2Rat(30), rsi_v) /\ RatLe(rsi_v, Int2Rat(70))
BuyCond(current_price, sma10, sma20, rsi_v) ==
    /\ RatGt(current_price, sma10) /\ RatGt(sma10, sma20)
    /\ RatLe(Int2Rat(30), rsi_v) /\ RatLe(rsi_v, Int2Rat(70))
SellCondNoPrice(current_price, sma10, sma20, rsi_v) ==
    /\ RatLt(sma20, sma10)
    /\ RatGe(rsi_v, Int2Rat(70))
SellCond(current_price, sma10, sma20, rsi_v) ==
    /\ RatLt(current_price, sma20) /\ RatLt(sma20, sma10)
    /\ RatGt(rsi_v, Int2Rat(70))

Decide(current_price, sma10, sma20, rsi_v) ==
    IF ~(IsNaN(current_price) \/ IsNaN(sma10) \/ IsNaN(sma20) \/ IsNaN(rsi_v))
    THEN IF BuyCond(current_price, sma10, sma20, rsi_v)
         THEN [decision |-> "BUY", reasons |-> <<R_BUY>>]
         ELSE IF SellCond(current_price, sma10, sma20, rsi_v)
         THEN [decision |-> "SELL", reasons |-> <<R_SELL>>]
         ELSE [decision |-> "HOLD", reasons |-> <<R_HOLD>>]
    ELSE [decision |-> "HOLD", reasons |-> <<R_LACK>>]

\* if not state.get('is_valid', True): (lines 257-261)
ErrorReport(s) ==
    [kind   |-> "error",
     ticker |-> s.ticker,
     err    |-> Join(Sep("; "), Val(s.errors))]

\* The report of the valid path (lines 263-329), field by field.
FullReport(s, now) ==
    LET info  == InfoOf(s)
        tech  == TechOf(s)
        trend == TrendOf(s)
        symbol    == Or(info.symbol, s.ticker)
        long_name == Or(info.long_name, symbol)
        current_price == OrFloat(info.current_price, tech.last_close)
        sma10 == tech.sma_short
        sma20 == tech.sma_long
        rsi_v == tech.rsi
        d     == Decide(current_price, sma10, sma20, rsi_v)
        currency == info.currency
    IN  [kind          |-> "full",
         symbol        |-> symbol,
         long_name     |-> long_name,
         current_price |-> _format_currency(current_price, currency),
         market_cap    |-> _format_market_cap(info.market_cap, currency),
         analysis_time |-> IF IsNone(s.stock_info) THEN now
                           ELSE info.analysis_time,
         sma10         |-> _format_currency(sma10, currency),
         sma20         |-> _format_currency(sma20, currency),
         rsi           |-> _format_currency(rsi_v, <<>>),
         short_term    |-> trend.short_term,
         price_vs_sma  |-> trend.price_vs_sma,
         momentum      |-> trend.momentum,
         notes         |-> trend.notes,
         decision      |-> d.decision,
         reasons       |-> Join(", ", d.reasons),
         warning       |-> Join(Sep("; "), Val(s.errors))]

generate_recommendation(st, now) ==
    LET s == _ensure_errors(st)
    IN  IF ~IsNone(s.is_valid) /\ ~Val(s.is_valid)
        THEN Returned([s EXCEPT !.report = Some(ErrorReport(s))])
        ELSE Returned([s EXCEPT !.report = Some(FullReport(s, now))])

\* ------------------------------------------------ src/graph.py build_graph
\* route_after_validate (lines 26-27)
route_always_fetch(st) == "fetch_stock_data"
route_after_validate(st) ==
    IF ~IsNone(st.is_valid) /\ Val(st.is_valid)
    THEN "fetch_stock_data" ELSE "generate_recommendation"

\* graph.add_edge (lines 31-34)
EdgeSkipsTrend(node) ==
    CASE node = "fetch_stock_data" -> "calculate_technical_indicators"
      [] node = "calculate_technical_indicators" -> "generate_recommendation"
      [] node = "analyze_market_trend" -> "generate_recommendation"
      [] node = "generate_recommendation" -> "END"
Edge(node) ==
    CASE node = "fetch_stock_data" -> "calculate_technical_indicators"
      [] node = "calculate_technical_indicators" -> "analyze_market_trend"
      [] node = "analyze_market_trend" -> "generate_recommendation"
      [] node = "generate_recommendation" -> "END"

\* A node has run and produced r: the graph moves on, or the exception
\* leaves graph.invoke.
After(r, next) == IF r.raised THEN "RAISED" ELSE next

\* ---------------------------------------------------- src/main.py run_agent
\* The tickers given on the command line.
Tickers == {<<>>, <<" ">>, <<"A">>, <<" ", "a">>}

Init ==
    /\ state \in {InitialState(t) : t \in Tickers}
    /\ pc = "validate_ticker"
    /\ calls = <<>>
    /\ arg = <<>>
    /\ res = <<>>

ValidateTicker ==
    /\ pc = "validate_ticker"
    /\ \E gw \in ValidateOutcomes :
          LET r == validate_ticker(state, gw)
          IN  /\ state' = r.st
              /\ calls' = calls \o validate_calls(state, gw)
              /\ pc' = After(r, route_after_validate(r.st))
    /\ UNCHANGED <<arg, res>>

FetchStockDataFrom(outcomes) ==
    /\ pc = "fetch_stock_data"
    /\ \E gw \in outcomes :
          LET r == fetch_stock_data(state, gw)
          IN  /\ state' = r.st
              /\ calls' = calls \o fetch_calls(state, gw)
              /\ pc' = After(r, Edge(pc))
    /\ UNCHANGED <<arg, res>>

FetchStockData == FetchStockDataFrom(FetchOutcomes)
FetchStockDataShort == FetchStockDataFrom(FetchOutcomesShort)

CalculateTechnicalIndicators ==
    /\ pc = "calculate_technical_indicators"
    /\ LET r == calculate_technical_indicators(state)
       IN  /\ state' = r.st
           /\ pc' = After(r, Edge(pc))
    /\ UNCHANGED <<calls, arg, res>>

AnalyzeMarketTrend ==
    /\ pc = "analyze_market_trend"
    /\ LET r == analyze_market_trend(state)
       IN  /\ state' = r.st
           /\ pc' = After(r, Edge(pc))
    /\ UNCHANGED <<calls, arg, res>>

GenerateRecommendation ==
    /\ pc = "generate_recommendation"
    /\ \E now \in Clock :
          LET r == generate_recommendation(state, now)
          IN  /\ state' = r.st
              /\ pc' = After(r, Edge(pc))
    /\ UNCHANGED <<calls, arg, res>>

Next ==
    \/ ValidateTicker
    \/ FetchStockData
    \/ CalculateTechnicalIndicators
    \/ AnalyzeMarketTrend
    \/ GenerateRecommendation

Spec == Init /\ [][Next]_vars

\* graph.invoke runs the nodes one after another until END: a node that
\* can run does run.  The histories are the short ones here: what the
\* run does with a fault, an empty answer or data does not depend on how
\* long the history is.
NextShort ==
    \/ ValidateTicker
    \/ FetchStockDataShort
    \/ CalculateTechnicalIndicators
    \/ AnalyzeMarketTrend
    \/ GenerateRecommendation

FairSpec == Init /\ [][NextShort]_vars /\ WF_vars(NextShort)

\* ------------------------------------------- the functions on their own
\* generate_recommendation's decision on every tuple of current price,
\* short average, long average and oscillator: each a whole number or
\* None (the price also nan), the oscillator around its two thresholds.
DecideInputs ==
    LET V == {NaN} \cup {Int2Rat(v) : v \in 0..MaxPrice}
        R == {NaN} \cup {Int2Rat(v) : v \in {0, 29, 30, 31, 69, 70, 71, 100}}
    IN  {[current_price |-> p, sma10 |-> a, sma20 |-> b, rsi |-> r] :
            p \in V \cup {FloatNaN}, a \in V, b \in V, r \in R}

InitDecide ==
    /\ state = InitialState(<<>>)
    /\ pc = "Decide"
    /\ calls = <<>>
    /\ arg \in DecideInputs
    /\ res = <<>>

ApplyDecide ==
    /\ pc = "Decide"
    /\ res' = Some([buy  |-> BuyCond(arg.current_price, arg.sma10, arg.sma20, arg.rsi),
                    sell |-> SellCond(arg.current_price, arg.sma10, arg.sma20, arg.rsi),
                    decision |-> Decide(arg.current_price, arg.sma10, arg.sma20,
                                        arg.rsi).decision])
    /\ pc' = "return"
    /\ UNCHANGED <<state, calls, arg>>

SpecDecide == InitDecide /\ [][ApplyDecide]_vars

\* sma on every series of up to MaxLen closes and every window up to
\* MaxWindow.
SmaInputs ==
    {[series |-> c, window |-> w] :
        c \in UNION {[1..n -> {Int2Rat(p) : p \in Prices}] : n \in 0..MaxLen},
        w \in 1..MaxWindow}

InitSma ==
    /\ state = InitialState(<<>>)
    /\ pc = "sma"
    /\ calls = <<>>
    /\ arg \in SmaInputs
    /\ res = <<>>

ApplySma ==
    /\ pc = "sma"
    /\ res' = Some(sma(arg.series, arg.window))
    /\ pc' = "return"
    /\ UNCHANGED <<state, calls, arg>>

SpecSma == InitSma /\ [][ApplySma]_vars

\* rsi on every series of up to MaxRsiLen closes and every period up to
\* MaxPeriod.
RsiInputs ==
    {[close |-> c, period |-> n] :
        c \in UNION {[1..k -> {Int2Rat(p) : p \in Prices}] : k \in 0..MaxRsiLen},
        n \in 1..MaxPeriod}

InitRsi ==
    /\ state = InitialState(<<>>)
    /\ pc = "rsi"
    /\ calls = <<>>
    /\ arg \in RsiInputs
    /\ res = <<>>

ApplyRsi ==
    /\ pc = "rsi"
    /\ res' = Some(rsi(arg.close, arg.period))
    /\ pc' = "return"
    /\ UNCHANGED <<state, calls, arg>>

SpecRsi == InitRsi /\ [][ApplyRsi]_vars

\* _format_market_cap on None and on caps (in thousands of currency
\* units) in every range: whole and half multiples of a thousand, a
\* million and a billion, the first trillions, and values that round.
CapInputs ==
    LET units == {1, 1000, 1000000}
        caps  == {m * u + h * (u \div 2) : m \in 1..MaxMantissa, h \in {0, 1}, u \in units}
                 \cup {0, 999, 999999, 1234567, 999999999,
                       1000000000, 1234567890, 2000000000}
    IN  {[market_cap |-> c, currency |-> cur] :
            c \in {None} \cup {Some(v) : v \in caps},
            cur \in {<<"USD">>, <<"EUR">>}}

InitCap ==
    /\ state = InitialState(<<>>)
    /\ pc = "_format_market_cap"
    /\ calls = <<>>
    /\ arg \in CapInputs
    /\ res = <<>>

ApplyCap ==
    /\ pc = "_format_market_cap"
    /\ res' = Some(_format_market_cap(arg.market_cap, arg.currency))
    /\ pc' = "return"
    /\ UNCHANGED <<state, calls, arg>>

SpecCap == InitCap /\ [][ApplyCap]_vars

\* validate_ticker on its own: every ticker of up to two characters out
\* of a blank, a lower-case and an upper-case letter, and every answer of
\* the gateway.  res keeps the state the node was given.
TickerInputs ==
    UNION {[1..n -> {" ", "a", "A"}] : n \in 0..2}

InitValidate ==
    /\ state \in {InitialState(t) : t \in TickerInputs}
    /\ pc = "validate_ticker"
    /\ calls = <<>>
    /\ arg \in ValidateOutcomes
    /\ res = None

ApplyValidate ==
    /\ pc = "validate_ticker"
    /\ LET r == validate_ticker(state, arg)
       IN  /\ state' = r.st
           /\ pc' = After(r, "return")
    /\ calls' = validate_calls(state, arg)
    /\ res' = Some(state)
    /\ UNCHANGED arg

SpecValidate == InitValidate /\ [][ApplyValidate]_vars

\* ------------------------------------------ src/main.py main (lines 17-18)
\* run_agent twice for the same ticker, the gateway answering the second
\* run as it answered the first; only the clock moves: the second run
\* reads the time of the first or a later one.  arg keeps the final
\* state of the first run, res what the gateway answered.
RerunClock == IF IsNone(arg) THEN Clock ELSE Clock \cup {MaxClock + 1}
RerunHistories ==
    ShortHistories
    \cup {h \in StepHistories : Len(h) = SMA_LONG /\ h[Len(h)] = Int2Rat(FlatLevel + 1)}
    \cup {RampHistory(SMA_LONG, 1, SMA_LONG - 1)}
RerunFetchOutcomes == FetchOutcomesOver(RerunHistories)
Answers(given, outcomes) == IF IsNone(given) THEN outcomes ELSE {Val(given)}

\* graph.invoke({'ticker': ticker}) on a graph built anew (lines 7-8).
CarriedState(st) == st
FreshState(st) == InitialState(st.ticker)

InitRerun ==
    /\ state \in {InitialState(t) : t \in Tickers}
    /\ pc = "validate_ticker"
    /\ calls = <<>>
    /\ arg = None
    /\ res = [validate |-> None, fetch |-> None]

RerunValidate ==
    /\ pc = "validate_ticker"
    /\ \E gw \in Answers(res.validate, ValidateOutcomes) :
          LET r == validate_ticker(state, gw)
          IN  /\ state' = r.st
              /\ calls' = calls \o validate_calls(state, gw)
              /\ pc' = After(r, route_after_validate(r.st))
              /\ res' = [res EXCEPT !.validate = Some(gw)]
    /\ UNCHANGED arg

RerunFetch ==
    /\ pc = "fetch_stock_data"
    /\ \E g \in Answers(res.fetch, RerunFetchOutcomes), t \in RerunClock :
          LET gw == [g EXCEPT !.now = t]
              r  == fetch_stock_data(state, gw)
          IN  /\ state' = r.st
              /\ calls' = calls \o fetch_calls(state, gw)
              /\ pc' = After(r, Edge(pc))
              /\ res' = [res EXCEPT !.fetch = Some([g EXCEPT !.now = 1])]
    /\ UNCHANGED arg

RerunGenerate ==
    /\ pc = "generate_recommendation"
    /\ \E now \in RerunClock :
          LET r == generate_recommendation(state, now)
          IN  /\ state' = r.st
              /\ pc' = After(r, Edge(pc))
    /\ UNCHANGED <<calls, arg, res>>

RunAgain ==
    /\ pc = "END"
    /\ arg = None
    /\ arg' = Some(state)
    /\ state' = FreshState(state)
    /\ pc' = "validate_ticker"
    /\ calls' = <<>>
    /\ UNCHANGED res

NextRerun ==
    \/ RerunValidate
    \/ RerunFetch
    \/ CalculateTechnicalIndicators
    \/ AnalyzeMarketTrend
    \/ RerunGenerate
    \/ RunAgain

SpecRerun == InitRerun /\ [][NextRerun]_vars

\* ===================================================================
\* Properties
\* ===================================================================
Done == pc = "END"
IsValid == state.is_valid = Some(TRUE)
IsInvalid == state.is_valid = Some(FALSE)
ErrorsOf(st) == IF IsNone(st.errors) THEN <<>> ELSE Val(st.errors)
ReportOf(st) == Val(st.report)
IsPrefix(a, b) == Len(a) <= Len(b) /\ SubSeq(b, 1, Len(a)) = a
InSeq(x, seq) == \E i \in 1..Len(seq) : seq[i] = x

\* A joined text holds exactly the messages, in order, "; " between them.
HoldsInOrder(joined, msgs) ==
    /\ Len(joined) = (IF msgs = <<>> THEN 0 ELSE 2 * Len(msgs) - 1)
    /\ \A i \in 1..Len(msgs) : joined[2 * i - 1] = msgs[i]
    /\ \A i \in 1..Len(msgs) - 1 : joined[2 * i].text = "; "

\* What the gateway did in this run.
Called(node, endpoint, results) ==
    \E i \in 1..Len(calls) :
        /\ calls[i].node = node
        /\ calls[i].endpoint = endpoint
        /\ calls[i].result \in results
HistoryFetchEmpty == Called("fetch_stock_data", "download", {"empty"})
HistoryFetchFault == Called("fetch_stock_data", "download", {"fault"})

\* C1: once validate_ticker has left is_valid false, stock_info,
\* historical_data, technical_indicators and trend are never populated,
\* the only node that still runs is generate_recommendation, and the
\* report of the finished run is the error report.
C1_InvalidPopulatesNothing ==
    IsInvalid =>
        /\ state.stock_info = None
        /\ state.historical_data = None
        /\ state.technical_indicators = None
        /\ state.trend = None
        /\ pc \in {"generate_recommendation", "END"}
        /\ Done => /\ state.report # None
                   /\ ReportOf(state).kind = "error"

\* C1 witness: a run that ended with is_valid false after a gateway fault.
C1_Witness ==
    /\ Done /\ IsInvalid
    /\ Called("validate_ticker", "history", {"fault"})
    /\ ReportOf(state).kind = "error"

\* C2: every run ends at END with a report, no node lets an exception
\* out, and the report of an invalid run holds the ticker and every error
\* message, joined.
C2_AlwaysReport ==
    /\ <>Done
    /\ [](pc # "RAISED")
    /\ [](Done => /\ state.report # None
                  /\ IsInvalid =>
                        /\ ReportOf(state).kind = "error"
                        /\ ReportOf(state).ticker = state.ticker
                        /\ ErrorsOf(state) # <<>>
                        /\ HoldsInOrder(ReportOf(state).err, ErrorsOf(state)))

\* C2 witness: a finished run whose history download faulted (a report
\* was still rendered).
C2_Witness ==
    /\ Done /\ HistoryFetchFault
    /\ state.report # None

\* C3: every step leaves the old error list a prefix of the new one, and
\* the report written at the end holds every message in arrival order.
C3_ErrorsAppendOnly ==
    [][/\ IsPrefix(ErrorsOf(state), ErrorsOf(state'))
       /\ pc' = "END" =>
            /\ state'.report # None
            /\ HoldsInOrder(IF ReportOf(state').kind = "error"
                            THEN ReportOf(state').err
                            ELSE ReportOf(state').warning,
                            ErrorsOf(state'))]_vars

\* C3 witness: a finished valid run with two accumulated messages in its
\* warning line.
C3_Witness ==
    /\ Done /\ IsValid
    /\ Len(ErrorsOf(state)) = 2
    /\ Len(ReportOf(state).warning) = 3

\* C4: valid ticker, empty history: is_valid stays true, the data error
\* is in the error list, and the finished run has a full report whose
\* decision is HOLD for lack of indicator data (never BUY or SELL).
C4_EmptyHistoryHolds ==
    HistoryFetchEmpty =>
        /\ IsValid
        /\ InSeq(E_NO_HISTORY, ErrorsOf(state))
        /\ Done => /\ state.report # None
                   /\ ReportOf(state).kind = "full"
                   /\ ReportOf(state).decision = "HOLD"
                   /\ ReportOf(state).decision \notin {"BUY", "SELL"}
                   /\ ReportOf(state).reasons = <<R_LACK>>

\* C4 witness: a finished run whose history download came back empty.
C4_Witness ==
    /\ Done /\ HistoryFetchEmpty
    /\ ReportOf(state).decision = "HOLD"

\* C5 as stated: a run in which exactly one gateway call failed (the
\* validation lookup, or the history download faulting or coming back
\* empty) ends with exactly one error entry and a report.
ValidationLookupFailed ==
    IsInvalid /\ Called("validate_ticker", "history", {"empty", "fault"})
HistoryFetchFailed == HistoryFetchEmpty \/ HistoryFetchFault
C5_OneFailureOneEntry ==
    (Done /\ (ValidationLookupFailed \/ HistoryFetchFailed)) =>
        /\ Len(ErrorsOf(state)) = 1
        /\ state.report # None

\* C5 amended: no request is sent twice by a node; a failed validation
\* lookup leaves exactly one entry; a failed history download leaves
\* exactly two, fetch_stock_data's own and then
\* calculate_technical_indicators' missing-history entry; a report is
\* rendered either way.
NoRetries ==
    \A i, j \in 1..Len(calls) :
        (calls[i].node = calls[j].node /\ calls[i].endpoint = calls[j].endpoint)
            => i = j
C5_FailureEntries ==
    /\ NoRetries
    /\ Done =>
        /\ ValidationLookupFailed =>
              /\ Len(ErrorsOf(state)) = 1
              /\ state.report # None
        /\ HistoryFetchFailed =>
              /\ Len(ErrorsOf(state)) = 2
              /\ ErrorsOf(state)[1] \in
                    {E_NO_HISTORY, E_FETCH(Upper(state.ticker))}
              /\ ErrorsOf(state)[2] = E_MISSING_HISTORY
              /\ state.report # None

\* C5 witness: a finished run whose history download faulted, with its
\* two entries.
C5_Witness ==
    /\ Done /\ HistoryFetchFault
    /\ Len(ErrorsOf(state)) = 2

\* The nodes of the valid path that have run.
TrendRan == IsValid /\ pc \in {"generate_recommendation", "END"}

\* The price generate_recommendation decides on: the snapshot's current
\* price, or the last close when the snapshot has none (None or 0).
DecisionPrice ==
    LET p == InfoOf(state).current_price
    IN  IF IsNaN(p) \/ p = Int2Rat(0) THEN TechOf(state).last_close ELSE p

\* C6: on the valid path the decision is HOLD for lack of data when any
\* of current price, short average, long average, oscillator is null;
\* otherwise BUY exactly when price > short > long and 30 <= osc <= 70;
\* SELL exactly when price < long < short and osc > 70; otherwise HOLD
\* with the does-not-qualify reason.  It is always BUY, SELL or HOLD.
C6_DecisionRule ==
    (Done /\ IsValid) =>
        LET p == DecisionPrice
            a == TechOf(state).sma_short
            b == TechOf(state).sma_long
            r == TechOf(state).rsi
            rep == ReportOf(state)
            missing == IsNaN(p) \/ IsNaN(a) \/ IsNaN(b) \/ IsNaN(r)
            buy  == /\ RatGt(p, a) /\ RatGt(a, b)
                    /\ RatGe(r, Int2Rat(30)) /\ RatLe(r, Int2Rat(70))
            sell == RatLt(p, b) /\ RatLt(b, a) /\ RatGt(r, Int2Rat(70))
        IN  /\ rep.kind = "full"
            /\ rep.decision \in {"BUY", "SELL", "HOLD"}
            /\ missing => (rep.decision = "HOLD" /\ rep.reasons = <<R_LACK>>)
            /\ ~missing =>
                  /\ (rep.decision = "BUY") <=> buy
                  /\ (rep.decision = "SELL") <=> sell
                  /\ (rep.decision = "HOLD") => rep.reasons = <<R_HOLD>>

\* C6 witness: a finished valid run that decided SELL.
C6_Witness == Done /\ IsValid /\ ReportOf(state).decision = "SELL"

\* C7: on no tuple are the BUY and the SELL condition both true, so the
\* decision (BUY tried first) is the one that trying SELL first gives.
C7_BuySellExclusive ==
    (pc = "return") =>
        LET out == Val(res)
            missing == \/ IsNaN(arg.current_price) \/ IsNaN(arg.sma10)
                       \/ IsNaN(arg.sma20) \/ IsNaN(arg.rsi)
            sellFirst == IF missing THEN "HOLD"
                         ELSE IF out.sell THEN "SELL"
                         ELSE IF out.buy THEN "BUY"
                         ELSE "HOLD"
        IN  /\ ~(out.buy /\ out.sell)
            /\ out.decision = sellFirst

\* C7 witness: a tuple on which the SELL condition holds.
C7_Witness == pc = "return" /\ Val(res).sell /\ Val(res).decision = "SELL"

\* C8: analyze_market_trend sets all four trend fields; short_term is
\* BULLISH exactly when short > long and price > short, BEARISH exactly
\* when short < long and price < short, NEUTRAL otherwise; with a null
\* price or average it is NEUTRAL and price_vs_sma carries the
\* undetermined label; 20 or more strictly rising closes give BULLISH.
StrictlyRising(close) ==
    \A i \in 1..Len(close) - 1 : RatLt(close[i], close[i + 1])
C8_ShortTermDirection ==
    TrendRan =>
        /\ state.trend # None
        /\ LET tr == Val(state.trend)
               p  == TechOf(state).last_close
               a  == TechOf(state).sma_short
               b  == TechOf(state).sma_long
               null == IsNaN(p) \/ IsNaN(a) \/ IsNaN(b)
               bull == ~null /\ RatGt(a, b) /\ RatGt(p, a)
               bear == ~null /\ RatLt(a, b) /\ RatLt(p, a)
           IN  /\ DOMAIN tr = {"short_term", "price_vs_sma", "momentum", "notes"}
               /\ (tr.short_term = "BULLISH ↗") <=> bull
               /\ (tr.short_term = "BEARISH ↘") <=> bear
               /\ (~bull /\ ~bear) => tr.short_term \in {"NEUTRAL", "NEUTRAL →"}
               /\ null => /\ tr.short_term = "NEUTRAL"
                          /\ tr.price_vs_sma = "Khong xac dinh"
               /\ ~null => tr.price_vs_sma # "Khong xac dinh"
               /\ ( /\ state.historical_data # None
                    /\ Len(Val(state.historical_data).Close) >= SMA_LONG
                    /\ StrictlyRising(Val(state.historical_data).Close) )
                  => tr.short_term = "BULLISH ↗"

\* C8 witness: the trend of a strictly rising series of 20 closes.
C8_Witness ==
    /\ TrendRan
    /\ state.historical_data # None
    /\ Len(Val(state.historical_data).Close) = SMA_LONG
    /\ StrictlyRising(Val(state.historical_data).Close)
    /\ Val(state.trend).short_term = "BULLISH ↗"

\* C9 as stated: momentum is POSITIVE when last close >= previous close,
\* NEGATIVE when it is lower, and carries no label when either is null.
C9_MomentumUnsetWhenNull ==
    TrendRan =>
        LET m    == Val(state.trend).momentum
            last == TechOf(state).last_close
            prev == TechOf(state).prev_close
        IN  IF IsNaN(last) \/ IsNaN(prev)
            THEN m \notin {"POSITIVE", "NEGATIVE", "NEUTRAL"}
            ELSE m = (IF RatGe(last, prev) THEN "POSITIVE" ELSE "NEGATIVE")

\* C9 amended: momentum is POSITIVE when last close >= previous close,
\* NEGATIVE when it is lower, and the default label NEUTRAL when either
\* is null.
C9_MomentumLabel ==
    TrendRan =>
        LET m    == Val(state.trend).momentum
            last == TechOf(state).last_close
            prev == TechOf(state).prev_close
        IN  IF IsNaN(last) \/ IsNaN(prev)
            THEN m = "NEUTRAL"
            ELSE m = (IF RatGe(last, prev) THEN "POSITIVE" ELSE "NEGATIVE")

\* C9 witness: a history of one close: there is a last close, no
\* previous close, and momentum is NEUTRAL.
C9_Witness ==
    /\ TrendRan
    /\ ~IsNaN(TechOf(state).last_close)
    /\ IsNaN(TechOf(state).prev_close)
    /\ Val(state.trend).momentum = "NEUTRAL"

\* C10: sma returns as many values as it is given; the first window - 1
\* are null and every later one is the mean of the window values ending
\* there.
RECURSIVE SumCloses(_, _, _)
SumCloses(series, from, to) ==
    IF from > to THEN 0 ELSE series[from][1] + SumCloses(series, from + 1, to)
C10_SmaIsWindowMean ==
    (pc = "return") =>
        LET out == Val(res)
            w   == arg.window
        IN  /\ Len(out) = Len(arg.series)
            /\ \A i \in 1..Len(out) :
                  IF i < w THEN IsNaN(out[i])
                  ELSE /\ ~IsNaN(out[i])
                       /\ out[i][1] * w
                            = out[i][2] * SumCloses(arg.series, i - w + 1, i)

\* C10 witness: a series longer than its window (of two or more), so
\* that there are null positions and more than one mean.
C10_Witness ==
    /\ pc = "return"
    /\ arg.window >= 2
    /\ Len(arg.series) > arg.window
    /\ ~IsNaN(Val(res)[Len(arg.series)])

\* The window of `period` differences ending at position j of close
\* exists and holds a fall (a rise).
HasFall(close, period, j) ==
    /\ j >= period + 1
    /\ \E k \in (j - period + 1)..j : RatLt(close[k], close[k - 1])
HasRise(close, period, j) ==
    /\ j >= period + 1
    /\ \E k \in (j - period + 1)..j : RatGt(close[k], close[k - 1])

\* C11 as stated: rsi is defined at every position whenever the series
\* has at least period + 1 observations; a null appears only in the
\* output of a shorter series.
C11_DefinedFromPeriodPlusOne ==
    (pc = "return") =>
        \A i \in 1..Len(Val(res)) :
            IsNaN(Val(res)[i]) => Len(arg.close) < arg.period + 1

\* C11 amended: rsi has the length of its input and is defined at a
\* position exactly when some window of `period` differences ending at
\* or after it holds a fall; so it is null everywhere for a series of
\* fewer than period + 1 observations, and also for one that never falls.
C11_DefinedWhereAFallFollows ==
    (pc = "return") =>
        /\ Len(Val(res)) = Len(arg.close)
        /\ \A i \in 1..Len(Val(res)) :
              ~IsNaN(Val(res)[i])
                <=> \E j \in i..Len(arg.close) : HasFall(arg.close, arg.period, j)
        /\ Len(arg.close) < arg.period + 1
              => \A i \in 1..Len(Val(res)) : IsNaN(Val(res)[i])

\* C11 witness: a series of at least period + 1 closes whose output is
\* back-filled at its first position and null at its last.
C11_Witness ==
    /\ pc = "return"
    /\ Len(arg.close) >= arg.period + 1
    /\ ~IsNaN(Val(res)[1])
    /\ IsNaN(Val(res)[Len(arg.close)])

\* C12: every defined value of rsi lies in [0, 100], and rsi of a
\* constant series returns (a series of the same length, all null).
IsFlat(close) == \A i \in 1..Len(close) : close[i] = close[1]
C12_RsiWithinClosedRange ==
    (pc = "return") =>
        /\ \A i \in 1..Len(Val(res)) :
              ~IsNaN(Val(res)[i]) =>
                  /\ RatGe(Val(res)[i], Int2Rat(0))
                  /\ RatLe(Val(res)[i], Int2Rat(100))
        /\ IsFlat(arg.close) =>
              /\ Len(Val(res)) = Len(arg.close)
              /\ \A i \in 1..Len(Val(res)) : IsNaN(Val(res)[i])

\* C12 witness: a series with rises and falls whose last value of rsi is
\* defined and strictly between the ends of the range.
C12_Witness ==
    /\ pc = "return"
    /\ Len(arg.close) >= arg.period + 1
    /\ RatGt(Val(res)[Len(arg.close)], Int2Rat(0))
    /\ RatLt(Val(res)[Len(arg.close)], Int2Rat(100))

\* C13 as stated: every defined value of rsi is strictly between 0 and
\* 100.
C13_RsiWithinOpenRange ==
    (pc = "return") =>
        \A i \in 1..Len(Val(res)) :
            ~IsNaN(Val(res)[i]) =>
                /\ RatGt(Val(res)[i], Int2Rat(0))
                /\ RatLt(Val(res)[i], Int2Rat(100))

\* C13 amended: every defined value of rsi is in [0, 100): 100 is never
\* produced, and the last value is 0 exactly when the last `period`
\* differences hold a fall and no rise.
C13_RsiZeroWhenOnlyFalls ==
    (pc = "return") =>
        /\ \A i \in 1..Len(Val(res)) :
              ~IsNaN(Val(res)[i]) =>
                  /\ RatGe(Val(res)[i], Int2Rat(0))
                  /\ RatLt(Val(res)[i], Int2Rat(100))
        /\ Len(arg.close) > 0 =>
              ( Val(res)[Len(arg.close)] = Int2Rat(0)
                <=> /\ HasFall(arg.close, arg.period, Len(arg.close))
                    /\ ~HasRise(arg.close, arg.period, Len(arg.close)) )

\* C13 witness: a series that only falls over its last `period`
\* differences, where rsi is 0.
C13_Witness ==
    /\ pc = "return"
    /\ Len(arg.close) >= arg.period + 1
    /\ \A k \in (Len(arg.close) - arg.period + 1)..Len(arg.close) :
          RatLt(arg.close[k], arg.close[k - 1])
    /\ Val(res)[Len(arg.close)] = Int2Rat(0)

\* C14 as stated: a null market cap gives N/A; any other is shown with
\* its currency, as the quotient to two decimals by the largest of a
\* thousand, a million, a billion and a trillion that it reaches,
\* followed by that threshold's suffix; 2,500,000,000 in USD is
\* "USD 2.50B".  (Caps and thresholds in thousands: a thousand is 1.)
C14_SuffixAtLargestThreshold ==
    (pc = "return") =>
        LET out == Val(res)
        IN  IF IsNone(arg.market_cap) THEN out = NA
            ELSE LET mc == Val(arg.market_cap)
                     thresh == IF mc >= 1000000000 THEN 1000000000
                               ELSE IF mc >= 1000000 THEN 1000000
                               ELSE IF mc >= 1000 THEN 1000
                               ELSE 1
                     suffix == IF mc >= 1000000000 THEN "T"
                               ELSE IF mc >= 1000000 THEN "B"
                               ELSE IF mc >= 1000 THEN "M"
                               ELSE "K"
                 IN  /\ mc >= 1 =>
                           out = [na |-> FALSE, currency |-> arg.currency,
                                  digits |-> IF thresh = 1 THEN 100 * mc
                                             ELSE RoundHalfEven(mc, thresh \div 100),
                                  suffix |-> suffix]
                     /\ (mc = 2500000 /\ arg.currency = <<"USD">>) =>
                           out = [na |-> FALSE, currency |-> <<"USD">>,
                                  digits |-> 250, suffix |-> "B"]

\* C14, the behaviour found: in the thousands range the cap is printed in full with
\* digit grouping and no suffix, and from a million on the suffix is the
\* one of the largest threshold reached.
C14_NoThousandSuffix ==
    (pc = "return" /\ ~IsNone(arg.market_cap)) =>
        LET out == Val(res)
            mc  == Val(arg.market_cap)
        IN  /\ (mc >= 1 /\ mc < 1000) =>
                  out = [na |-> FALSE, currency |-> arg.currency,
                         digits |-> mc, suffix |-> ",000"]
            /\ mc >= 1000 => out.suffix \in {"M", "B", "T"}
            /\ (mc = 2500000 /\ arg.currency = <<"USD">>) =>
                  (out.digits = 250 /\ out.suffix = "B")

\* C14 witness: a cap of 5,000 in USD, printed "USD 5,000".
C14_ThousandsPrinted ==
    /\ pc = "return"
    /\ arg.market_cap = Some(5) /\ arg.currency = <<"USD">>
    /\ Val(res).suffix = ",000" /\ Val(res).digits = 5

\* A final state without its analysis timestamp (in stock_info and in
\* the report).
SansTime(st) ==
    [st EXCEPT
        !.stock_info = IF IsNone(@) THEN None
                       ELSE Some([Val(@) EXCEPT !.analysis_time = 0]),
        !.report = IF IsNone(@) THEN None
                   ELSE IF Val(@).kind = "full"
                   THEN Some([Val(@) EXCEPT !.analysis_time = 0])
                   ELSE @]

\* C15: a second run for the same ticker, with the gateway answering as
\* in the first, ends in the state the first run ended in (decision,
\* indicators, trend, errors, report), the analysis timestamp apart;
\* nothing of the first run reaches the second.
C15_SameInputsSameReport ==
    (pc = "END" /\ ~IsNone(arg)) => SansTime(state) = SansTime(Val(arg))

\* C15 witness: two finished valid runs with a snapshot, taken at
\* different times.
C15_Witness ==
    /\ pc = "END" /\ ~IsNone(arg)
    /\ IsValid
    /\ ~IsNone(state.stock_info) /\ ~IsNone(state.technical_indicators)
    /\ Val(state.stock_info).analysis_time
         # Val(Val(arg).stock_info).analysis_time
    /\ ReportOf(state).decision = "BUY"

\* One step of a run, seen from outside: which stage follows which.
StageStep ==
    /\ pc = "validate_ticker" =>
          \/ pc' = "fetch_stock_data" /\ state'.is_valid = Some(TRUE)
          \/ pc' = "generate_recommendation" /\ state'.is_valid = Some(FALSE)
    /\ pc = "fetch_stock_data" => pc' = "calculate_technical_indicators"
    /\ pc = "calculate_technical_indicators" => pc' = "analyze_market_trend"
    /\ pc = "analyze_market_trend" => pc' = "generate_recommendation"
    /\ pc = "generate_recommendation" => pc' = "END"
    /\ pc # "validate_ticker" => state'.is_valid = state.is_valid
    /\ pc \in {"validate_ticker", "fetch_stock_data",
                "calculate_technical_indicators", "analyze_market_trend",
                "generate_recommendation"}

\* C16: every run goes validate_ticker, fetch_stock_data,
\* calculate_technical_indicators, analyze_market_trend,
\* generate_recommendation when validation set is_valid true, and
\* validate_ticker, generate_recommendation when it set it false; each
\* stage once, whatever failed inside it, generate_recommendation last,
\* and the run ends.
C16_StageOrder == [][StageStep]_vars /\ <>Done

\* C16 witness: a finished valid run whose history download faulted and
\* whose trend and report were still written.
C16_Witness ==
    /\ Done /\ IsValid
    /\ HistoryFetchFault
    /\ state.trend # None
    /\ state.report # None
    /\ Len(ErrorsOf(state)) = 2

\* C17: validate_ticker leaves stock_info, historical_data,
\* technical_indicators, trend, report and the stored ticker as they
\* were; it sets is_valid true exactly when the ticker is not blank and
\* the gateway returned a session, or returned none and then reported a
\* positive live price, without raising; otherwise it sets is_valid
\* false and appends exactly one error message.
C17_ValidateFrame ==
    (pc # "validate_ticker") =>
        LET pre == Val(res)
            nonBlank == \E i \in 1..Len(pre.ticker) : pre.ticker[i] # " "
            resolved ==
                \/ arg.session = "data"
                \/ /\ arg.session = "empty"
                   /\ ~arg.fast.fault
                   /\ RatGt(arg.fast.last_price, Int2Rat(0))
            valid == nonBlank /\ resolved
        IN  /\ pc = "return"
            /\ state.stock_info = pre.stock_info
            /\ state.historical_data = pre.historical_data
            /\ state.technical_indicators = pre.technical_indicators
            /\ state.trend = pre.trend
            /\ state.report = pre.report
            /\ state.ticker = pre.ticker
            /\ state.is_valid = Some(valid)
            /\ valid => ErrorsOf(state) = ErrorsOf(pre)
            /\ ~valid => /\ Len(ErrorsOf(state)) = Len(ErrorsOf(pre)) + 1
                         /\ IsPrefix(ErrorsOf(pre), ErrorsOf(state))

\* C17 witness: a ticker with a leading blank, no session returned, a
\* positive live price: valid, the stored ticker still the raw one.
C17_Witness ==
    /\ pc = "return"
    /\ state.ticker = <<" ", "a">>
    /\ arg.session = "empty"
    /\ state.is_valid = Some(TRUE)
    /\ ErrorsOf(state) = <<>>

\* C18: a finished valid run that decided BUY or SELL has short average
\* > long average and never the BEARISH label; and when the price decided
\* on is the last close, BUY comes with BULLISH and above-both.
C18_DecisionAgreesWithTrend ==
    (Done /\ IsValid) =>
        LET rep  == ReportOf(state)
            tech == TechOf(state)
        IN  /\ rep.decision \in {"BUY", "SELL"} =>
                  /\ RatGt(tech.sma_short, tech.sma_long)
                  /\ rep.short_term # "BEARISH ↘"
            /\ (rep.decision = "BUY" /\ DecisionPrice = tech.last_close) =>
                  /\ rep.short_term = "BULLISH ↗"
                  /\ rep.price_vs_sma = "Above both moving averages"

\* C18 witness: a BUY decided on the last close.
C18_Witness ==
    /\ Done /\ IsValid
    /\ ReportOf(state).decision = "BUY"
    /\ DecisionPrice = TechOf(state).last_close
    /\ ReportOf(state).short_term = "BULLISH ↗"

\* The symbols a node sent to the gateway.
SymbolsSentBy(node) ==
    {calls[i].symbol : i \in {k \in 1..Len(calls) : calls[k].node = node}}

\* C19 as stated: the symbol fetch_stock_data sends to the gateway is the
\* trimmed, upper-cased symbol that validate_ticker resolved, whatever
\* blanks the raw ticker has.
C19_FetchSendsNormalizedSymbol ==
    /\ SymbolsSentBy("fetch_stock_data") \subseteq SymbolsSentBy("validate_ticker")
    /\ \A sym \in SymbolsSentBy("fetch_stock_data") :
          /\ sym # <<>>
          /\ sym[1] # " " /\ sym[Len(sym)] # " "
          /\ \A i \in 1..Len(sym) : sym[i] # "a"

\* C19 witness: the raw ticker " a": validate_ticker asked for "A",
\* fetch_stock_data for " A".
C19_Witness ==
    /\ state.ticker = <<" ", "a">>
    /\ SymbolsSentBy("validate_ticker") = {<<"A">>}
    /\ SymbolsSentBy("fetch_stock_data") = {<<" ", "A">>}

====
